---- MODULE Spec2Model ----
(***************************************************************************)
(* The BB84 round played by BB84ProtocolScene.construct (scripts/scenes.py)*)
(* with the rendering calls left out: Alice prepares the cards, Eve        *)
(* measures each of them, Bob measures each of them, the bases are         *)
(* compared and one sifted bit is sampled.                                 *)
(*                                                                         *)
(* Python lists are functions over 0..len-1, so that indices stored in     *)
(* sifted_key_indices and test_index are the very numbers the code holds.  *)
(***************************************************************************)
EXTENDS Integers, FiniteSets

VARIABLES pc, alice_bits, alice_bases, qubit_cards, eve_bases, eve_results,
          bob_bases, bob_results, loop_i, randint_draw, sifted_key_indices,
          test_index, result_text, final_key, raised

vars == <<pc, alice_bits, alice_bases, qubit_cards, eve_bases, eve_results,
          bob_bases, bob_results, loop_i, randint_draw, sifted_key_indices,
          test_index, result_text, final_key, raised>>

(* num_qubits is 8 in the source; the model plays the round with fewer cards. *)
num_qubits == 3

None == -1

Bits == {0, 1}

Bases == {"Z", "X"}

Idx == 0 .. (num_qubits - 1)

(* ---- Python list helpers ---------------------------------------------- *)

EmptyList == [k \in {} |-> None]

len(l) == Cardinality(DOMAIN l)

(* mutant: pop() without its argument drops the last item *)
pop_last(l, p) == [k \in 0 .. (len(l) - 2) |-> l[k]]

(* l.pop(p): the list without position p, later items moved down by one *)
pop(l, p) == [k \in 0 .. (len(l) - 2) |-> IF k < p THEN l[k] ELSE l[k + 1]]

(* [src[j] for j in indices] *)
Select(src, indices) == [k \in DOMAIN indices |-> src[indices[k]]]

append(l, x) == [k \in 0 .. len(l) |-> IF k = len(l) THEN x ELSE l[k]]

(* ---- QubitCard --------------------------------------------------------- *)

QubitCard(bit_value, basis) ==
    [bit_value |-> bit_value, basis |-> basis, corrupted |-> FALSE]

Unbound == [bound |-> FALSE, value |-> EmptyList]

Bound(l) == [bound |-> TRUE, value |-> l]

(* ---- construct: the state before any stage has run -------------------- *)

Init ==
    /\ pc = "setup_characters_and_channels"
    /\ alice_bits = EmptyList
    /\ alice_bases = EmptyList
    /\ qubit_cards = EmptyList
    /\ eve_bases = EmptyList
    /\ eve_results = EmptyList
    /\ bob_bases = EmptyList
    /\ bob_results = EmptyList
    /\ loop_i = 0
    /\ randint_draw = None
    /\ sifted_key_indices = EmptyList
    /\ test_index = None
    /\ result_text = "None"
    /\ final_key = Unbound
    /\ raised = "None"

setup_characters_and_channels ==
    /\ pc = "setup_characters_and_channels"
    /\ pc' = "alice_prepares_qubits"
    /\ UNCHANGED <<alice_bits, alice_bases, qubit_cards, eve_bases,
                   eve_results, bob_bases, bob_results, loop_i, randint_draw,
                   sifted_key_indices, test_index, result_text, final_key,
                   raised>>

alice_prepares_qubits ==
    /\ pc = "alice_prepares_qubits"
    /\ \E bits \in [Idx -> Bits], bases \in [Idx -> Bases] :
          /\ alice_bits' = bits
          /\ alice_bases' = bases
          /\ qubit_cards' = [k \in Idx |-> QubitCard(bits[k], bases[k])]
    /\ pc' = "alice_sends_package"
    /\ UNCHANGED <<eve_bases, eve_results, bob_bases, bob_results, loop_i,
                   randint_draw, sifted_key_indices, test_index, result_text,
                   final_key, raised>>

alice_sends_package ==
    /\ pc = "alice_sends_package"
    /\ pc' = "eve_eavesdrops"
    /\ UNCHANGED <<alice_bits, alice_bases, qubit_cards, eve_bases,
                   eve_results, bob_bases, bob_results, loop_i, randint_draw,
                   sifted_key_indices, test_index, result_text, final_key,
                   raised>>

(* ---- eve_eavesdrops ---------------------------------------------------- *)

eve_eavesdrops ==
    /\ pc = "eve_eavesdrops"
    /\ \E bases \in [DOMAIN qubit_cards -> Bases] : eve_bases' = bases
    /\ eve_results' = [k \in DOMAIN qubit_cards |-> None]
    /\ loop_i' = 0
    /\ pc' = "eve_loop"
    /\ UNCHANGED <<alice_bits, alice_bases, qubit_cards, bob_bases,
                   bob_results, randint_draw, sifted_key_indices, test_index,
                   result_text, final_key, raised>>

(* mutant: the test of line 216 inverted *)
EveGuessedWrong(original_basis, eve_basis) == original_basis # eve_basis

EveGuessedRight(original_basis, eve_basis) == original_basis = eve_basis

(* mutant: the basis is not collapsed to Eve's basis *)
EveCollapseKeepsBasis(card, new_bit, eve_basis) ==
    [card EXCEPT !.bit_value = new_bit, !.corrupted = TRUE]

EveCollapse(card, new_bit, eve_basis) ==
    [card EXCEPT !.bit_value = new_bit, !.basis = eve_basis,
                 !.corrupted = TRUE]

eve_loop ==
    /\ pc = "eve_loop"
    /\ loop_i < len(qubit_cards)
    /\ LET card == qubit_cards[loop_i]
           original_basis == card.basis
           eve_basis == eve_bases[loop_i]
       IN IF EveGuessedRight(original_basis, eve_basis)
          THEN /\ eve_results' = [eve_results EXCEPT ![loop_i] = card.bit_value]
               /\ randint_draw' = None
               /\ UNCHANGED qubit_cards
          ELSE \E new_bit \in Bits :
               /\ randint_draw' = new_bit
               /\ qubit_cards' =
                     [qubit_cards EXCEPT
                         ![loop_i] = EveCollapse(card, new_bit, eve_basis)]
               /\ eve_results' = [eve_results EXCEPT ![loop_i] = new_bit]
    /\ loop_i' = loop_i + 1
    /\ pc' = IF loop_i + 1 < len(qubit_cards)
             THEN "eve_loop" ELSE "messenger_continues_to_bob"
    /\ UNCHANGED <<alice_bits, alice_bases, eve_bases, bob_bases, bob_results,
                   sifted_key_indices, test_index, result_text, final_key,
                   raised>>

messenger_continues_to_bob ==
    /\ pc = "messenger_continues_to_bob"
    /\ pc' = "bob_measures_qubits"
    /\ UNCHANGED <<alice_bits, alice_bases, qubit_cards, eve_bases,
                   eve_results, bob_bases, bob_results, loop_i, randint_draw,
                   sifted_key_indices, test_index, result_text, final_key,
                   raised>>

(* ---- bob_measures_qubits ---------------------------------------------- *)

bob_measures_qubits ==
    /\ pc = "bob_measures_qubits"
    /\ \E bases \in [DOMAIN qubit_cards -> Bases] : bob_bases' = bases
    /\ bob_results' = [k \in DOMAIN qubit_cards |-> None]
    /\ loop_i' = 0
    /\ randint_draw' = None
    /\ pc' = "bob_loop"
    /\ UNCHANGED <<alice_bits, alice_bases, qubit_cards, eve_bases,
                   eve_results, sifted_key_indices, test_index, result_text,
                   final_key, raised>>

(* mutant: Bob re-randomises a card Eve has corrupted *)
BobCollapsesIgnoringCorrupted(card, bob_basis) == card.basis # bob_basis

(* mutant: 'or' in place of 'and' in the test of line 270 *)
BobCollapsesOr(card, bob_basis) ==
    card.basis # bob_basis \/ ~card.corrupted

BobCollapses(card, bob_basis) ==
    card.basis # bob_basis /\ ~card.corrupted

bob_loop ==
    /\ pc = "bob_loop"
    /\ loop_i < len(qubit_cards)
    /\ LET card == qubit_cards[loop_i]
       IN IF BobCollapses(card, bob_bases[loop_i])
          THEN \E drawn \in Bits :
               /\ randint_draw' = drawn
               /\ qubit_cards' =
                     [qubit_cards EXCEPT ![loop_i].bit_value = drawn]
               /\ bob_results' = [bob_results EXCEPT ![loop_i] = drawn]
          ELSE /\ randint_draw' = None
               /\ UNCHANGED qubit_cards
               /\ bob_results' = [bob_results EXCEPT ![loop_i] = card.bit_value]
    /\ loop_i' = loop_i + 1
    /\ pc' = IF loop_i + 1 < len(qubit_cards)
             THEN "bob_loop" ELSE "basis_comparison"
    /\ UNCHANGED <<alice_bits, alice_bases, eve_bases, eve_results, bob_bases,
                   sifted_key_indices, test_index, result_text, final_key,
                   raised>>

(* ---- basis_comparison -------------------------------------------------- *)

RECURSIVE SiftLoop(_, _, _, _)
SiftLoop(i, a_bases, b_bases, acc) ==
    IF i >= len(a_bases) THEN acc
    ELSE SiftLoop(i + 1, a_bases, b_bases,
                  IF a_bases[i] = b_bases[i] THEN append(acc, i) ELSE acc)

(* mutant: the loop starts at index 1 *)
SiftFromOne(a_bases, b_bases) == SiftLoop(1, a_bases, b_bases, EmptyList)

Sift(a_bases, b_bases) == SiftLoop(0, a_bases, b_bases, EmptyList)

basis_comparison ==
    /\ pc = "basis_comparison"
    /\ sifted_key_indices' = Sift(alice_bases, bob_bases)
    /\ pc' = "verify_key"
    /\ UNCHANGED <<alice_bits, alice_bases, qubit_cards, eve_bases,
                   eve_results, bob_bases, bob_results, loop_i, randint_draw,
                   test_index, result_text, final_key, raised>>

(* ---- verify_key -------------------------------------------------------- *)

alice_sifted == Select(alice_bits, sifted_key_indices)

bob_sifted == Select(bob_results, sifted_key_indices)

(* mutant: the first sifted bit is compared, not the sampled one *)
TestFirstBitsMatch(a_sifted, b_sifted, t) == a_sifted[0] = b_sifted[0]

TestBitsMatch(a_sifted, b_sifted, t) == a_sifted[t] = b_sifted[t]

(* mutant: final_key aliases alice_bits, so the pop shortens Alice's record *)
verify_key_popping_alice_bits ==
    /\ pc = "verify_key"
    /\ IF len(alice_sifted) = 0
       THEN /\ raised' = "ValueError"
            /\ UNCHANGED <<test_index, result_text, final_key, alice_bits>>
       ELSE \E t \in 0 .. (len(alice_sifted) - 1) :
            /\ test_index' = t
            /\ IF TestBitsMatch(alice_sifted, bob_sifted, t)
               THEN /\ result_text' = "Test Bits Match!"
                    /\ alice_bits' = pop(alice_bits, t)
                    /\ final_key' = Bound(pop(alice_bits, t))
               ELSE /\ result_text' = "Eavesdropping Detected!"
                    /\ UNCHANGED <<final_key, alice_bits>>
            /\ UNCHANGED raised
    /\ pc' = "done"
    /\ UNCHANGED <<alice_bases, qubit_cards, eve_bases, eve_results,
                   bob_bases, bob_results, loop_i, randint_draw,
                   sifted_key_indices>>

verify_key ==
    /\ pc = "verify_key"
    /\ IF len(alice_sifted) = 0
       THEN (* random.randint(0, -1) raises ValueError; nothing catches it *)
            /\ raised' = "ValueError"
            /\ UNCHANGED <<test_index, result_text, final_key>>
       ELSE \E t \in 0 .. (len(alice_sifted) - 1) :
            /\ test_index' = t
            /\ IF TestBitsMatch(alice_sifted, bob_sifted, t)
               THEN /\ result_text' = "Test Bits Match!"
                    /\ final_key' = Bound(pop(alice_sifted, t))
               ELSE /\ result_text' = "Eavesdropping Detected!"
                    /\ UNCHANGED final_key
            /\ UNCHANGED raised
    /\ pc' = "done"
    /\ UNCHANGED <<alice_bits, alice_bases, qubit_cards, eve_bases,
                   eve_results, bob_bases, bob_results, loop_i, randint_draw,
                   sifted_key_indices>>

Next ==
    \/ setup_characters_and_channels
    \/ alice_prepares_qubits
    \/ alice_sends_package
    \/ eve_eavesdrops
    \/ eve_loop
    \/ messenger_continues_to_bob
    \/ bob_measures_qubits
    \/ bob_loop
    \/ basis_comparison
    \/ verify_key

Spec == Init /\ [][Next]_vars

(* ======================================================================= *)
(* Properties                                                              *)
(* ======================================================================= *)

(* Eve's loop has finished its iteration on card k *)
EveProcessed(k) ==
    \/ pc = "eve_loop" /\ k < loop_i
    \/ pc \in {"messenger_continues_to_bob", "bob_measures_qubits",
               "bob_loop", "basis_comparison", "verify_key", "done"}

(* Bob's loop has finished its iteration on card k *)
BobMeasured(k) ==
    \/ pc = "bob_loop" /\ k < loop_i
    \/ pc \in {"basis_comparison", "verify_key", "done"}

(* the step being taken is Eve's / Bob's loop iteration on card k *)
EveMeasuring(k) == pc = "eve_loop" /\ loop_i = k /\ loop_i' = k + 1

BobMeasuring(k) == pc = "bob_loop" /\ loop_i = k /\ loop_i' = k + 1

Sifted(k) == alice_bases[k] = bob_bases[k]

(* Eve's iteration on card k took the branch that writes nothing to the card *)
Undisturbed(k) == eve_bases[k] = alice_bases[k]

Accepted == result_text = "Test Bits Match!"

Aborted == result_text = "Eavesdropping Detected!"

(* C1: one measurement rule for both parties: whenever the chosen basis
   differs from the card's current basis, the step draws a fresh bit, records
   it as the result, writes it to the card and collapses the card's basis to
   the chosen basis -- for Eve's loop and for Bob's loop alike, whether or not
   the card was measured before. *)
C1_SameMeasurementRule ==
    [][\A k \in Idx :
         /\ (EveMeasuring(k) /\ eve_bases[k] # qubit_cards[k].basis)
              => /\ randint_draw' \in Bits
                 /\ eve_results'[k] = randint_draw'
                 /\ qubit_cards'[k].bit_value = randint_draw'
                 /\ qubit_cards'[k].basis = eve_bases[k]
         /\ (BobMeasuring(k) /\ bob_bases[k] # qubit_cards[k].basis)
              => /\ randint_draw' \in Bits
                 /\ bob_results'[k] = randint_draw'
                 /\ qubit_cards'[k].bit_value = randint_draw'
                 /\ qubit_cards'[k].basis = bob_bases[k]]_vars

(* C2: a measurement in the card's current basis records the card's bit as it
   was before the measurement and leaves the card's bit and basis alone, for
   Eve and for Bob. *)
C2_SameBasisUndisturbed ==
    [][\A k \in Idx :
         /\ (EveMeasuring(k) /\ eve_bases[k] = qubit_cards[k].basis)
              => /\ eve_results'[k] = qubit_cards[k].bit_value
                 /\ qubit_cards'[k].bit_value = qubit_cards[k].bit_value
                 /\ qubit_cards'[k].basis = qubit_cards[k].basis
         /\ (BobMeasuring(k) /\ bob_bases[k] = qubit_cards[k].basis)
              => /\ bob_results'[k] = qubit_cards[k].bit_value
                 /\ qubit_cards'[k].bit_value = qubit_cards[k].bit_value
                 /\ qubit_cards'[k].basis = qubit_cards[k].basis]_vars

(* both parties have measured some card in the basis it was in: card j was
   left alone by Eve and read by Bob in Alice's basis, card k was collapsed by
   Eve and read by Bob in Eve's basis *)
C2_Witness ==
    /\ pc = "basis_comparison"
    /\ \E j, k \in Idx :
          /\ eve_bases[j] = alice_bases[j]
          /\ bob_bases[j] = alice_bases[j]
          /\ bob_results[j] = alice_bits[j]
          /\ eve_bases[k] # alice_bases[k]
          /\ bob_bases[k] = eve_bases[k]
          /\ bob_results[k] = eve_results[k]

(* C3: basis_comparison returns exactly the indices where Alice's recorded
   basis equals Bob's, each once, in strictly ascending order, so its length
   is the number of agreeing positions (all indices when all agree, none when
   none agree); Alice's recorded bases are used, not the cards' bases. *)
C3_SiftExact ==
    pc \in {"verify_key", "done"} =>
        /\ DOMAIN sifted_key_indices = 0 .. (len(sifted_key_indices) - 1)
        /\ \A m \in DOMAIN sifted_key_indices : sifted_key_indices[m] \in Idx
        /\ \A m, n \in DOMAIN sifted_key_indices :
              m < n => sifted_key_indices[m] < sifted_key_indices[n]
        /\ \A k \in Idx :
              (\E m \in DOMAIN sifted_key_indices : sifted_key_indices[m] = k)
                 <=> alice_bases[k] = bob_bases[k]
        /\ len(sifted_key_indices) =
              Cardinality({k \in Idx : alice_bases[k] = bob_bases[k]})

(* index 0 is sifted although its card no longer carries Alice's basis, some
   index is left out, and two indices are kept *)
C3_Witness ==
    /\ pc = "verify_key"
    /\ len(sifted_key_indices) = 2
    /\ sifted_key_indices[0] = 0
    /\ qubit_cards[0].basis # alice_bases[0]
    /\ \E k \in Idx : alice_bases[k] # bob_bases[k]

(* C4: for every sifted index whose card Eve left undisturbed, Bob's result
   is Alice's bit; and a round in which no card was disturbed never ends in
   'Eavesdropping Detected'. *)
C4_NoFalseAbort ==
    /\ \A k \in Idx :
          (BobMeasured(k) /\ Sifted(k) /\ Undisturbed(k))
             => bob_results[k] = alice_bits[k]
    /\ (pc = "done" /\ \A k \in Idx : Undisturbed(k)) => ~Aborted

(* a finished round in which Eve guessed every basis, at least two positions
   were sifted and the sample was compared *)
C4_Witness ==
    /\ pc = "done"
    /\ \A k \in Idx : Undisturbed(k)
    /\ len(sifted_key_indices) >= 2
    /\ Accepted

(* C5: with a non-empty sifted key verify_key ends in exactly one of the two
   outcomes; it is the abort outcome exactly when Alice's and Bob's bits
   differ at the sampled sifted position; an abort leaves no final key and an
   acceptance produces one. *)
C5_AbortIffSampleMismatch ==
    (pc = "done" /\ len(sifted_key_indices) > 0) =>
        /\ raised = "None"
        /\ Accepted \/ Aborted
        /\ test_index \in DOMAIN sifted_key_indices
        /\ Aborted <=> alice_bits[sifted_key_indices[test_index]]
                          # bob_results[sifted_key_indices[test_index]]
        /\ Aborted => final_key = Unbound
        /\ Accepted => final_key.bound

(* an abort on the second sifted position while the first one agrees *)
C5_Witness ==
    /\ pc = "done"
    /\ Aborted
    /\ len(sifted_key_indices) >= 2
    /\ test_index = 1
    /\ alice_bits[sifted_key_indices[0]] = bob_results[sifted_key_indices[0]]

(* C6: on acceptance the final key is Alice's bits at the sifted indices with
   the sampled position removed, in ascending index order: one item shorter
   than the sifted key, every other sifted position contributing once. *)
C6_FinalKeyIsSiftedMinusSample ==
    (pc = "done" /\ Accepted) =>
        /\ final_key.bound
        /\ DOMAIN final_key.value = 0 .. (len(sifted_key_indices) - 2)
        /\ \A m \in DOMAIN final_key.value :
              final_key.value[m] =
                 alice_bits[sifted_key_indices[IF m < test_index
                                               THEN m ELSE m + 1]]

(* all three positions sifted and the first one sampled, the remaining two
   bits being different from one another *)
C6_Witness ==
    /\ pc = "done"
    /\ Accepted
    /\ len(sifted_key_indices) = 3
    /\ test_index = 0
    /\ final_key.value[0] # final_key.value[1]
    /\ alice_bits[0] = final_key.value[1]

(* C7: with an empty sifted key verification ends in the defined
   InsufficientKeyMaterial outcome, having sampled no index and produced no
   key. *)
C7_EmptySiftedKeyHandled ==
    (pc = "done" /\ len(sifted_key_indices) = 0) =>
        /\ raised = "InsufficientKeyMaterial"
        /\ test_index = None
        /\ final_key = Unbound

StageRank(p) ==
    CASE p = "setup_characters_and_channels" -> 0
      [] p = "alice_prepares_qubits" -> 1
      [] p = "alice_sends_package" -> 2
      [] p = "eve_eavesdrops" -> 3
      [] p = "eve_loop" -> 4
      [] p = "messenger_continues_to_bob" -> 5
      [] p = "bob_measures_qubits" -> 6
      [] p = "bob_loop" -> 7
      [] p = "basis_comparison" -> 8
      [] p = "verify_key" -> 9
      [] p = "done" -> 10

ProtocolState(card) == <<card.bit_value, card.basis>>

(* C8: once the cards exist, a card's (bit_value, basis) changes only in
   Eve's loop iteration on that card or in Bob's loop iteration on that card;
   each loop visits its cards in increasing order and no stage is entered
   twice, so a card changes at most once per measuring party; Alice's recorded
   bits and bases never change once prepared. *)
C8_CardsChangeOncePerParty ==
    [][/\ StageRank(pc') >= StageRank(pc)
       /\ (pc' = pc) => (pc \in {"eve_loop", "bob_loop"}
                            /\ loop_i' = loop_i + 1)
       /\ (pc = "setup_characters_and_channels")
             => qubit_cards' = qubit_cards
       /\ StageRank(pc) >= 2 =>
             /\ alice_bits' = alice_bits
             /\ alice_bases' = alice_bases
             /\ DOMAIN qubit_cards' = DOMAIN qubit_cards
             /\ \A k \in Idx :
                   ProtocolState(qubit_cards'[k]) # ProtocolState(qubit_cards[k])
                      => EveMeasuring(k) \/ BobMeasuring(k)]_vars

(* a finished round in which some card was changed by Eve and some card was
   changed by Bob *)
C8_Witness ==
    /\ pc = "done"
    /\ \E j, k \in Idx :
          /\ qubit_cards[j].basis # alice_bases[j]
          /\ qubit_cards[j].bit_value # alice_bits[j]
          /\ ~qubit_cards[k].corrupted
          /\ qubit_cards[k].bit_value # alice_bits[k]

(* C9: from Eve's iteration on card k until Bob's iteration on it, the card's
   basis is eve_bases[k], its bit is eve_results[k], and it is flagged
   corrupted exactly when eve_bases[k] differs from alice_bases[k]; a
   corrupted flag is never cleared. *)
C9_CardReflectsEve ==
    /\ [](\A k \in Idx :
            (EveProcessed(k) /\ ~BobMeasured(k)) =>
                /\ qubit_cards[k].basis = eve_bases[k]
                /\ qubit_cards[k].bit_value = eve_results[k]
                /\ qubit_cards[k].corrupted <=> eve_bases[k] # alice_bases[k])
    /\ [][\A k \in DOMAIN qubit_cards :
            qubit_cards[k].corrupted => qubit_cards'[k].corrupted]_vars

(* between the two loops: one card corrupted with a bit unlike Alice's, one
   card left alone *)
C9_Witness ==
    /\ pc = "messenger_continues_to_bob"
    /\ \E j, k \in Idx :
          /\ qubit_cards[j].corrupted
          /\ qubit_cards[j].bit_value # alice_bits[j]
          /\ ~qubit_cards[k].corrupted

(* C10: at the end of a round Bob's result equals Eve's result at every
   sifted index, whatever bases Eve chose. *)
C10_EveKnowsSiftedKey ==
    pc = "done" =>
        \A k \in Idx : Sifted(k) => bob_results[k] = eve_results[k]

(* an accepted round with a sifted position that Eve measured in the wrong
   basis and on which Bob, like Eve, holds a bit unlike Alice's *)
C10_Witness ==
    /\ pc = "done"
    /\ Accepted
    /\ \E k \in Idx :
          /\ Sifted(k)
          /\ eve_bases[k] # alice_bases[k]
          /\ bob_results[k] = eve_results[k]
          /\ bob_results[k] # alice_bits[k]

====
